---- MODULE Spec2Model ----
(***************************************************************************)
(* The Amazon Connections notifier (main.js, modules/config.js,            *)
(* modules/requests.js) as a state machine: the start-up script, the two   *)
(* readiness promises and their join, the named pipe, the heartbeat timer, *)
(* the delayed exit/quit timers, clearAppData and the telemetry reports.   *)
(*                                                                         *)
(* One action is one turn of the event loop (a callback run to the end);   *)
(* promise reactions are microtasks, run before the next callback.  Time   *)
(* is kept per timer: every pending timer carries the delay it was set     *)
(* with and the time elapsed since it was set.                             *)
(*                                                                         *)
(* The repository's two command-line tools are separate programs with      *)
(* specifications of their own: randompassword.c (PwSpec) and              *)
(* parentalcontrolsd_terminator.sh (WdSpec).                               *)
(***************************************************************************)
EXTENDS Integers, Sequences, FiniteSets, TLC

\* ---------------------------------------------------------------- bounds
\* The clock advances in steps of TimeStep milliseconds.
TimeStep == 5000
\* At most MaxLatePulses 'health-check-pulse' messages are received after
\* crashCallback has run (before it, any number).
MaxLatePulses == 1

\* The bytes the entropy source is let to deliver: the multiples of ByteStep
\* below 256, and 255.
ByteStep == 85
\* The CPU readings of the watched process lie within CpuMargin tenths of a
\* percent of the limit (or are 0.0), and the process is started at most
\* MaxPid times.
CpuMargin == 5
MaxPid == 2

\* ------------------------------------------------------- program constants
HEALTH_CHECK_INITIAL_TIMEOUT == 90000
HEALTH_CHECK_TIMEOUT == 5000
DEFAULT_WAIT_TIME == 1000
\* randompassword.c
RNDBUFSIZ == 12
PWLEN == 16
\* parentalcontrolsd_terminator.sh: % of the CPU to watch for
CPU_LIMIT == 5

\* undefined / null, for a string and for a number
NoValue == "undefined"
NoNumber == 0 - 1
\* no event list yet (addEvent's "if (!events)")
NoEvents == <<>>
STAGES == [ALPHA |-> "alpha", INTEG |-> "integ", GAMMA |-> "gamma", PROD |-> "prod"]
\* Object.keys(WEBSITE_DOMAINS)
VALID_STAGES_LIST == {STAGES.ALPHA, STAGES.INTEG, STAGES.GAMMA, STAGES.PROD}

ClientEventType ==
    [USERNAME_NOT_FOUND    |-> "username_not_found",
     PIPE_CONNECTION_ERROR |-> "pipe_connected_error",
     DISCO_APP_INIT        |-> "disco_app_init",
     WINDOW_SIZE           |-> "window_size",
     LOAD_UI               |-> "load_ui",
     LOAD_UI_ERROR         |-> "load_ui_error",
     HEALTH_CHECK_ERROR    |-> "health_check_error",
     DISCO_APP_EXCEPTION   |-> "disco_app_exception"]

\* requests.addEvent: a missing list starts a new one, the event is pushed.
addEvent(events, eventType) ==
    IF events = NoEvents THEN <<eventType>> ELSE Append(events, eventType)

\* The event batches main.js builds and hands to reportClientEvents.
Batches ==
    {addEvent(NoEvents, ClientEventType.USERNAME_NOT_FOUND),
     addEvent(NoEvents, ClientEventType.PIPE_CONNECTION_ERROR),
     addEvent(addEvent(NoEvents, ClientEventType.DISCO_APP_INIT), ClientEventType.WINDOW_SIZE),
     addEvent(NoEvents, ClientEventType.LOAD_UI),
     addEvent(addEvent(NoEvents, ClientEventType.LOAD_UI), ClientEventType.LOAD_UI_ERROR),
     addEvent(NoEvents, ClientEventType.HEALTH_CHECK_ERROR),
     addEvent(NoEvents, ClientEventType.DISCO_APP_EXCEPTION)}

\* The launch arguments the model draws from.
UsernameArgs == {"jdoe", NoValue}
StageArgs == {"gamma", "PROD"}
\* The error codes of the pipe's 'error' event.
ErrorCodes == {"ENOENT", "ETIMEDOUT", "EACCES"}
\* The callers of clearAppData, by what their callback does.
ClearKinds == {"crash", "window-all-closed", "will-quit", "clear-app-data"}
\* Those on a way out of the application: all but the renderer's request.
ShutdownKinds == ClearKinds \ {"clear-app-data"}

VARIABLES
    argv,               \* launch arguments: username, stage, dev (isDeveloperMode) and
                        \* pipe (onWindows && hasPipe: the named pipe is to be used)
    phase,              \* "boot" | "running" | "exited" (process.exit) | "quit" (app.quit)
    exitCode,           \* the process's exit code once it has ended, else NoNumber
    exitTimer,          \* the timer whose callback called process.exit (a set: none or one)
    instanceConfig,     \* config.js: [username, stage]
    stageWarnings,      \* logger.warn(stageWarningMsg) calls
    timers,             \* pending setTimeout timers
    safeCloseTimeout,   \* the handle of the heartbeat timer set last
    latePulses,         \* 'health-check-pulse' messages received after crashCallback ran
    sincePulse,         \* time since the pulse that set the pending heartbeat timer, else NoNumber
    crashCount,         \* runs of crashCallback
    lastCrash,          \* the timer that ran crashCallback last, with sincePulse then (a set)
    whenPipeConnected,  \* "pending" | "resolved" | "rejected"
    whenAppReady,       \* "pending" | "resolved"
    initRegistered,     \* whenAppReady.then(initApp) has been called
    microtasks,         \* callbacks due before the next event: the pipe's 'close' after
                        \* its 'error', then promise reactions
    pipeClient,         \* "none" | "connecting" | "connected" | "errored" | "closed" | "ended"
                        \* ("errored": destroyed by an error, 'close' not delivered)
    pipeFailure,        \* the code of an error that failed the connection attempt
    stdoutTee,          \* process.stdout.write is the wrapper that also writes to the pipe
    mainWindow,         \* "null" | "window"
    win,                \* the native window: "none" | "open" | "closing" | "closed"
    winEvents,          \* events of a closing window not yet delivered
    ui,                 \* "none" | "reading" | "loaded" | "failed"
    initCount,          \* runs of initApp
    quitting,           \* app.quit() has been called
    reported,           \* reportClientEvents calls, per batch
    pendingReports,     \* reportError promises not yet settled
    clearOps,           \* clearAppData operations not yet completed, per caller
    cleared,            \* the callers on a way out whose clearAppData operation has completed
    uncaughtCount,      \* runs of handleUncaughtException
    \* randompassword.c
    urandom,            \* the bytes /dev/urandom holds ready, in order
    pwPc,               \* main's position: "open" | "read" | "loop" | "exited"
    fd,                 \* the descriptor open returned, NoNumber before
    nread,              \* what read returned, NoNumber before
    rbuf,               \* unsigned char rbuf[RNDBUFSIZ]
    i,                  \* the loop's read index
    j,                  \* the loop's write index
    pw,                 \* unsigned char pw[PWLEN+1], the part written so far
    pwStdout,           \* the characters written to standard output
    pwStderr,           \* diagnostics written to standard error
    pwExit,             \* the exit status, NoNumber while main runs
    \* parentalcontrolsd_terminator.sh
    proc,               \* the pid of the running parentalcontrolsd, 0 if there is none
    lastPid,            \* the pid given to the instance started last
    wdPc,               \* the script's position: "pgrep" | "ps" | "test" | "kill" |
                        \* "sleep" | "recheck" | "killall" | "exited"
    APP_PID,            \* $APP_PID: a pid, 0 for the empty string, NoNumber before
    APP_CPU,            \* $APP_CPU in tenths of a percent, NoNumber for the empty string
    CPU_PERCENTAGE,     \* $CPU_PERCENTAGE as [[ -ge ]] evaluates it, NoNumber before
    recheck,            \* what the second pgrep printed: a pid, 0 for nothing, NoNumber before
    sent,               \* the signal commands and the wait, in the order they were run
    status,             \* $?: the exit status of the command run last
    wdExit              \* the script's exit code, NoNumber while it runs

notifierVars == <<argv, phase, exitCode, exitTimer, instanceConfig, stageWarnings, timers,
          safeCloseTimeout, latePulses, sincePulse, crashCount, lastCrash,
          whenPipeConnected, whenAppReady, initRegistered, microtasks,
          pipeClient, pipeFailure, stdoutTee, mainWindow, win, winEvents, ui,
          initCount, quitting, reported, pendingReports, clearOps, cleared,
          uncaughtCount>>

pwVars == <<urandom, pwPc, fd, nread, rbuf, i, j, pw, pwStdout, pwStderr, pwExit>>

\* The variables of the command-line tools, which the notifier never touches.
wdVars == <<proc, lastPid, wdPc, APP_PID, APP_CPU, CPU_PERCENTAGE, recheck, sent,
            status, wdExit>>

toolVars == <<pwVars, wdVars>>

vars == <<notifierVars, toolVars>>

\* ------------------------------------------------------------- config.js
\* config.setStage without its check: any stage is accepted.
setStageAcceptsAll(stage) == FALSE

\* config.setStage: throws IllegalArgumentException unless the stage is a key
\* of WEBSITE_DOMAINS (an exact, case-sensitive match).
setStageThrows(stage) == stage \notin VALID_STAGES_LIST

\* A setStage that stores the stage before it checks it.
setStageStoresFirst(cfg, stage) == [cfg EXCEPT !.stage = stage]

setStage(cfg, stage) ==
    IF setStageThrows(stage) THEN cfg ELSE [cfg EXCEPT !.stage = stage]

setUsername(cfg, username) == [cfg EXCEPT !.username = username]

\* ----------------------------------------------------------- requests.js
\* reportClientEvents: a missing username becomes "NotFound" with stage alpha;
\* otherwise a missing stage throws.
reportClientEventsThrows(cfg) ==
    LET username == cfg.username
        stage == IF username = NoValue THEN STAGES.ALPHA ELSE cfg.stage
    IN  stage = NoValue

\* reportEvent (and reportError, which only swaps two arguments): throws unless
\* both stage and username are set.
reportEventThrows(cfg) == cfg.stage = NoValue \/ cfg.username = NoValue

\* ------------------------------------------------------ timers of main.js
\* waitAndRun without its default: a missing wait time is no wait at all.
WaitTimeNoDefault(waitTime) == IF waitTime = NoNumber THEN 0 ELSE waitTime

\* waitAndRun's default value workaround.
WaitTime(waitTime) == IF waitTime = NoNumber THEN DEFAULT_WAIT_TIME ELSE waitTime

Timer(kind, code, delay, n) ==
    [kind |-> kind, code |-> code, delay |-> delay, elapsed |-> 0, n |-> n]

\* waitAndRun(callback, waitTime): setTimeout(callback, waitTime).
waitAndRun(ts, kind, code, waitTime) ==
    ts \cup {Timer(kind, code, WaitTime(waitTime), 0)}

\* waitAndExit(errorCode, waitTime): process.exit(errorCode) after the wait.
waitAndExit(ts, errorCode, waitTime) == waitAndRun(ts, "exit", errorCode, waitTime)

\* waitAndQuit(waitTime): app.quit() after the wait.
waitAndQuit(ts, waitTime) == waitAndRun(ts, "quit", 0, waitTime)

\* A clearTimeout that clears nothing.
clearTimeoutNothing(ts, handle) == ts

\* clearTimeout(handle): a timer that has fired or was cleared is not pending.
clearTimeout(ts, handle) == ts \ {t \in ts : t.kind = "crash" /\ t.n = handle}

\* The handle setTimeout returns: one no pending timer has.
NextHandle(ts) ==
    CHOOSE n \in 0..Cardinality(ts) :
        /\ \A t \in ts : t.kind = "crash" => t.n # n
        /\ \A m \in 0..(n - 1) : \E t \in ts : t.kind = "crash" /\ t.n = m

\* setTimeout(crashCallback, delay)
setCrashTimeout(ts, delay) == ts \cup {Timer("crash", 0, delay, NextHandle(ts))}

Due(t) == t.elapsed >= t.delay

\* Timers that are due run in the order of their deadlines.
First(ts, t) == Due(t) /\ \A u \in ts : u.delay - u.elapsed >= t.delay - t.elapsed

\* ------------------------------------------ effects of a callback of main.js
\* What a callback changes through the helpers below, and whether it threw.
Effects ==
    [timers |-> timers, pending |-> pendingReports, reported |-> reported,
     clearOps |-> clearOps, uncaught |-> uncaughtCount, quitting |-> quitting,
     threw |-> FALSE]

reportClientEvents(e, events) ==
    IF reportClientEventsThrows(instanceConfig)
    THEN [e EXCEPT !.threw = TRUE]
    ELSE [e EXCEPT !.reported[events] = @ + 1]

\* reportErrorAndExit: requests.reportError(...).finally(waitAndExit(1)); the
\* exit is scheduled when the report's promise settles (ReportSettled).
reportErrorAndExit(e) ==
    IF reportEventThrows(instanceConfig)
    THEN [e EXCEPT !.threw = TRUE]
    ELSE [e EXCEPT !.pending = @ + 1]

\* handleUncaughtException: log, report DISCO_APP_EXCEPTION, reportError with
\* .catch(log).finally(waitAndExit(1)); anything thrown on the way: waitAndExit(1).
handleUncaughtException(e) ==
    LET e0 == [e EXCEPT !.threw = FALSE, !.uncaught = @ + 1]
        e1 == reportClientEvents(e0, addEvent(NoEvents, ClientEventType.DISCO_APP_EXCEPTION))
        e2 == IF e1.threw THEN e1 ELSE reportErrorAndExit(e1)
    IN  IF e2.threw
        THEN [e2 EXCEPT !.threw = FALSE, !.timers = waitAndExit(@, 1, NoNumber)]
        ELSE e2

\* A callback the event loop runs: what it throws reaches
\* process.on('uncaughtException', handleUncaughtException).
TopLevel(e) == IF e.threw THEN handleUncaughtException(e) ELSE e

\* A promise reaction with no handler after it: what it throws rejects a
\* promise nobody listens to.
Unhandled(e) == [e EXCEPT !.threw = FALSE]

\* clearAppData(callback): reads mainWindow.webContents.session (a TypeError
\* when mainWindow is null), starts clearStorageData, clears the auth cache.
clearAppData(e, kind) ==
    IF mainWindow = "null"
    THEN [e EXCEPT !.threw = TRUE]
    ELSE [e EXCEPT !.clearOps[kind] = @ + 1]

\* app.quit()
appQuit(e) == [e EXCEPT !.quitting = TRUE]

Commit(e) ==
    /\ timers' = e.timers
    /\ pendingReports' = e.pending
    /\ reported' = e.reported
    /\ clearOps' = e.clearOps
    /\ uncaughtCount' = e.uncaught
    /\ quitting' = e.quitting

\* ------------------------------------------------------- randompassword.c
\* unsigned char encoding_table[], indexed from 0 in the program.
encoding_table ==
    <<"A", "B", "C", "D", "E", "F", "G", "H",
      "+", "J", "K", "L", "M", "N", "-", "P",
      "Q", "R", "S", "T", "U", "V", "W", "X",
      "Y", "Z", "a", "b", "c", "d", "e", "f",
      "g", "h", "i", "j", "k", "*", "m", "n",
      "o", "p", "q", "r", "s", "t", "u", "v",
      "w", "x", "y", "z", "0", "1", "2", "3",
      "4", "5", "6", "7", "8", "9", "@", "#">>

\* << and >> on unsigned int. The operands are octets (at most 255) shifted
\* by at most 16 bits and their sums, all below 2^24: nothing wraps at the
\* 32 bits of unsigned int.
ShiftLeft(x, k) == x * (2 ^ k)
ShiftRight(x, k) == x \div (2 ^ k)

\* The triple with the first octet in the low byte.
tripleLowFirst(octet_a, octet_b, octet_c) ==
    ShiftLeft(octet_c, 16) + ShiftLeft(octet_b, 8) + octet_a

\* unsigned int triple = (octet_a << 0x10) + (octet_b << 0x08) + octet_c;
triple(octet_a, octet_b, octet_c) ==
    ShiftLeft(octet_a, 16) + ShiftLeft(octet_b, 8) + octet_c

\* The symbol selected with a mask of five bits.
symbolFiveBits(tr, n) == encoding_table[(ShiftRight(tr, n * 6) % 32) + 1]

\* encoding_table[(triple >> n * 6) & 0x3F]
symbol(tr, n) == encoding_table[(ShiftRight(tr, n * 6) % 64) + 1]

\* The check on read's result that only sees an error.
readFailedOnly(n) == n < 0

\* read(fd, &rbuf[0], RNDBUFSIZ, 1) < RNDBUFSIZ: both sides are int (read is
\* not declared, so it returns int), and -1 is less than 12.
readTooShort(n) == n < RNDBUFSIZ

\* The loop of lines 46-58 as a function of the buffer: character k of pw is
\* symbol 3 - (k mod 4) of the triple of the group of three bytes it falls in.
encoded(bytes) ==
    [k \in 1..((Len(bytes) \div 3) * 4) |->
        LET g == (k - 1) \div 4
        IN  symbol(triple(bytes[3 * g + 1], bytes[3 * g + 2], bytes[3 * g + 3]),
                   3 - ((k - 1) % 4))]

\* The byte values the model draws from.
Bytes == {b \in 0..255 : b % ByteStep = 0 \/ b = 255}

\* The inputs: one three-byte group of any content at any of the four places,
\* zero bytes around it.
Inputs ==
    {[p \in 1..RNDBUFSIZ |->
         IF (p - 1) \div 3 = g THEN tr[((p - 1) % 3) + 1] ELSE 0] :
     g \in 0..((RNDBUFSIZ \div 3) - 1), tr \in Bytes \X Bytes \X Bytes}

\* main is entered: nothing is opened, rbuf holds whatever the stack held.
PwStart ==
    /\ urandom \in Inputs
    /\ pwPc = "open"
    /\ fd = NoNumber
    /\ nread = NoNumber
    /\ \E junk \in Bytes : rbuf = [p \in 1..RNDBUFSIZ |-> junk]
    /\ i = 0
    /\ j = 0
    /\ pw = <<>>
    /\ pwStdout = <<>>
    /\ pwStderr = 0
    /\ pwExit = NoNumber

\* The program is not run.
PwNotRun ==
    /\ PwStart
    /\ urandom = [p \in 1..RNDBUFSIZ |-> 0]
    /\ rbuf = [p \in 1..RNDBUFSIZ |-> 0]

\* ------------------------------------------ parentalcontrolsd_terminator.sh
\* The limit taken as it is written, not times 100.
cpuLimitUnscaled(limit) == limit

\* CPU_LIMIT_PERCENTAGE=$(bc <<< $CPU_LIMIT*100)
cpuLimitPercentage(limit) == limit * 100

\* CPU_PERCENTAGE=$(bc <<< $APP_CPU*100); CPU_PERCENTAGE="${CPU_PERCENTAGE%.*}":
\* ps prints the reading with one decimal, bc gives the product with one
\* decimal, and the expansion cuts it off at the point. An empty $APP_CPU
\* (ps printed nothing) leaves an empty string, which [[ -ge ]] takes as 0.
cpuPercentage(appCpu) ==
    IF appCpu = NoNumber THEN 0 ELSE (appCpu * 100) \div 10

\* The test with -gt for -ge.
exceedsLimit(cpuPct, limitPct) == cpuPct > limitPct

\* [[ $CPU_PERCENTAGE -ge $CPU_LIMIT_PERCENTAGE ]]
reachesLimit(cpuPct, limitPct) == cpuPct >= limitPct

\* The readings of ps, in tenths of a percent.
CpuReadings ==
    {0} \cup {t \in (CPU_LIMIT * 10 - CpuMargin)..(CPU_LIMIT * 10 + CpuMargin) : t >= 0}

\* The script is started; parentalcontrolsd runs or does not.
WdStart ==
    /\ proc \in {0, 1}
    /\ lastPid = proc
    /\ wdPc = "pgrep"
    /\ APP_PID = NoNumber
    /\ APP_CPU = NoNumber
    /\ CPU_PERCENTAGE = NoNumber
    /\ recheck = NoNumber
    /\ sent = <<>>
    /\ status = 0
    /\ wdExit = NoNumber

\* The script is not run.
WdNotRun == WdStart /\ proc = 0

\* ------------------------------------------------------------------ Init
NotifierInit ==
    /\ argv \in [username : UsernameArgs, stage : StageArgs, dev : BOOLEAN,
                 pipe : BOOLEAN]
    /\ phase = "boot"
    /\ exitCode = NoNumber
    /\ exitTimer = {}
    /\ instanceConfig = [username |-> NoValue, stage |-> NoValue]
    /\ stageWarnings = 0
    /\ timers = {}
    /\ safeCloseTimeout = NoNumber
    /\ latePulses = 0
    /\ sincePulse = NoNumber
    /\ crashCount = 0
    /\ lastCrash = {}
    /\ whenPipeConnected = "pending"
    /\ whenAppReady = "pending"
    /\ initRegistered = FALSE
    /\ microtasks = <<>>
    /\ pipeClient = "none"
    /\ pipeFailure = NoValue
    /\ stdoutTee = FALSE
    /\ mainWindow = "null"
    /\ win = "none"
    /\ winEvents = {}
    /\ ui = "none"
    /\ initCount = 0
    /\ quitting = FALSE
    /\ reported = [b \in Batches |-> 0]
    /\ pendingReports = 0
    /\ clearOps = [k \in ClearKinds |-> 0]
    /\ cleared = {}
    /\ uncaughtCount = 0

\* The notifier is started; the command-line tools are not run.
Init == NotifierInit /\ PwNotRun /\ WdNotRun

\* A callback can run: the process is alive and no promise reaction is waiting.
Idle == phase = "running" /\ microtasks = <<>>

\* An event other than a timer can be handled: timers run on time, so none is due.
Quiet == Idle /\ \A t \in timers : ~Due(t)

\* ------------------------------------------------- the start-up script
\* main.js, lines 13 to 419, run once when the module is loaded.
Main ==
    /\ phase = "boot"
    /\ LET e0 == Effects
           \* lines 28-34: no username
           e1 == IF argv.username = NoValue
                 THEN LET r == reportClientEvents(e0,
                                   addEvent(NoEvents, ClientEventType.USERNAME_NOT_FOUND))
                      IN  [r EXCEPT !.timers = waitAndExit(@, 1, NoNumber)]
                 ELSE e0
           \* line 35
           c1 == setUsername(instanceConfig, argv.username)
           \* lines 37-49
           c2 == IF setStageThrows(argv.stage)
                 THEN setStage(c1, STAGES.PROD)
                 ELSE setStage(c1, argv.stage)
           usePipe == argv.pipe
       IN  /\ instanceConfig' = c2
           /\ stageWarnings' = IF setStageThrows(argv.stage) THEN 1 ELSE 0
           \* lines 89-149
           /\ whenPipeConnected' = IF usePipe THEN "pending" ELSE "resolved"
           /\ pipeClient' = IF usePipe THEN "connecting" ELSE "none"
           \* lines 222-230: the reaction of a promise already resolved is queued
           /\ microtasks' = IF usePipe THEN <<>> ELSE <<"pipeThen">>
           \* line 413
           /\ timers' = setCrashTimeout(e1.timers, HEALTH_CHECK_INITIAL_TIMEOUT)
           /\ safeCloseTimeout' = NextHandle(e1.timers)
           /\ reported' = e1.reported
    /\ phase' = "running"
    /\ UNCHANGED <<toolVars, argv, cleared, exitCode, exitTimer, latePulses, sincePulse,
                   crashCount,
                   lastCrash, whenAppReady, initRegistered, pipeFailure, stdoutTee,
                   mainWindow, win, winEvents, ui, initCount, quitting, pendingReports,
                   clearOps, uncaughtCount>>

\* ------------------------------------------------- the readiness join
\* The join without its inner promise: whenPipeConnected.then(initApp).
PipeThenNoJoin ==
    /\ phase = "running"
    /\ microtasks # <<>> /\ Head(microtasks) = "pipeThen"
    /\ initRegistered' = TRUE
    /\ microtasks' = Append(Tail(microtasks), "initApp")
    /\ UNCHANGED <<toolVars, argv, cleared, phase, exitCode, exitTimer, instanceConfig,
                   stageWarnings,
                   timers, safeCloseTimeout, latePulses, sincePulse, crashCount,
                   lastCrash, whenPipeConnected, whenAppReady, pipeClient, pipeFailure,
                   stdoutTee, mainWindow, win, winEvents, ui, initCount, quitting,
                   reported, pendingReports, clearOps, uncaughtCount>>

\* whenPipeConnected.then(function() { whenAppReady.then(initApp).catch(...) })
\* lines 222-225: the outer reaction registers initApp on whenAppReady.
PipeThen ==
    /\ phase = "running"
    /\ microtasks # <<>> /\ Head(microtasks) = "pipeThen"
    /\ initRegistered' = TRUE
    /\ microtasks' = IF whenAppReady = "resolved"
                     THEN Append(Tail(microtasks), "initApp")
                     ELSE Tail(microtasks)
    /\ UNCHANGED <<toolVars, argv, cleared, phase, exitCode, exitTimer, instanceConfig,
                   stageWarnings,
                   timers, safeCloseTimeout, latePulses, sincePulse, crashCount,
                   lastCrash, whenPipeConnected, whenAppReady, pipeClient, pipeFailure,
                   stdoutTee, mainWindow, win, winEvents, ui, initCount, quitting,
                   reported, pendingReports, clearOps, uncaughtCount>>

\* lines 226-230: the pipe promise was rejected.
PipeCatch ==
    /\ phase = "running"
    /\ microtasks # <<>> /\ Head(microtasks) = "pipeCatch"
    /\ microtasks' = Tail(microtasks)
    /\ Commit(Unhandled(reportErrorAndExit(Effects)))
    /\ UNCHANGED <<toolVars, argv, cleared, phase, exitCode, exitTimer, instanceConfig,
                   stageWarnings,
                   safeCloseTimeout, latePulses, sincePulse, crashCount, lastCrash,
                   whenPipeConnected, whenAppReady, initRegistered, pipeClient,
                   pipeFailure, stdoutTee, mainWindow, win, winEvents, ui, initCount>>

\* app.on('ready', resolve), line 218.
AppReady ==
    /\ Quiet
    /\ whenAppReady = "pending"
    /\ whenAppReady' = "resolved"
    /\ microtasks' = IF initRegistered THEN Append(microtasks, "initApp") ELSE microtasks
    /\ UNCHANGED <<toolVars, argv, cleared, phase, exitCode, exitTimer, instanceConfig,
                   stageWarnings,
                   timers, safeCloseTimeout, latePulses, sincePulse, crashCount,
                   lastCrash, whenPipeConnected, initRegistered, pipeClient,
                   pipeFailure, stdoutTee, mainWindow, win, winEvents, ui, initCount,
                   quitting, reported, pendingReports, clearOps, uncaughtCount>>

\* initApp, lines 160-213, with loadSurveyUI's synchronous part (lines 257-281).
\* created = FALSE: the window could not be created (new BrowserWindow throws);
\* the reaction's .catch hands the error to handleUncaughtException.
InitApp(created) ==
    /\ phase = "running"
    /\ microtasks # <<>> /\ Head(microtasks) = "initApp"
    /\ microtasks' = Tail(microtasks)
    /\ initCount' = initCount + 1
    /\ LET e1 == reportClientEvents(Effects,
                     addEvent(addEvent(NoEvents, ClientEventType.DISCO_APP_INIT),
                              ClientEventType.WINDOW_SIZE))
       IN  /\ mainWindow' = IF created THEN "window" ELSE mainWindow
           /\ win' = IF created THEN "open" ELSE win
           /\ ui' = IF created /\ ~e1.threw THEN "reading" ELSE ui
           /\ Commit(IF created THEN TopLevel(e1) ELSE handleUncaughtException(Effects))
    /\ UNCHANGED <<toolVars, argv, cleared, phase, exitCode, exitTimer, instanceConfig,
                   stageWarnings,
                   safeCloseTimeout, latePulses, sincePulse, crashCount, lastCrash,
                   whenPipeConnected, whenAppReady, initRegistered, pipeClient,
                   pipeFailure, stdoutTee, winEvents>>

\* fs.readFile's callback, lines 281-314.
ReadFileDone(err) ==
    /\ Quiet
    /\ ui = "reading"
    /\ IF err
       THEN LET e1 == reportClientEvents(Effects,
                          addEvent(addEvent(NoEvents, ClientEventType.LOAD_UI),
                                   ClientEventType.LOAD_UI_ERROR))
                e2 == IF e1.threw THEN e1 ELSE reportErrorAndExit(e1)
            IN  /\ ui' = "failed"
                /\ Commit(TopLevel(e2))
       ELSE LET e1 == reportClientEvents(Effects, addEvent(NoEvents, ClientEventType.LOAD_UI))
                \* window.loadURL throws on a window that has been destroyed
                e2 == IF e1.threw \/ win = "open" THEN e1 ELSE [e1 EXCEPT !.threw = TRUE]
            IN  /\ ui' = IF e2.threw THEN "failed" ELSE "loaded"
                /\ Commit(TopLevel(e2))
    /\ UNCHANGED <<toolVars, argv, cleared, phase, exitCode, exitTimer, instanceConfig,
                   stageWarnings,
                   safeCloseTimeout, latePulses, sincePulse, crashCount, lastCrash,
                   whenPipeConnected, whenAppReady, initRegistered, microtasks,
                   pipeClient, pipeFailure, stdoutTee, mainWindow, win, winEvents,
                   initCount>>

\* ---------------------------------------------------------------- the pipe
\* net.connect's connect listener, lines 103-110.
PipeConnect ==
    /\ Quiet
    /\ pipeClient = "connecting"
    /\ pipeClient' = "connected"
    /\ stdoutTee' = TRUE
    /\ whenPipeConnected' = "resolved"
    /\ microtasks' = Append(microtasks, "pipeThen")
    /\ UNCHANGED <<toolVars, argv, cleared, phase, exitCode, exitTimer, instanceConfig,
                   stageWarnings,
                   timers, safeCloseTimeout, latePulses, sincePulse, crashCount,
                   lastCrash, whenAppReady, initRegistered, pipeFailure, mainWindow,
                   win, winEvents, ui, initCount, quitting, reported, pendingReports,
                   clearOps, uncaughtCount>>

\* The 'error' listener tolerating ENOENT alone.
pipeErrorOutcomeStrict(dev, code) ==
    IF dev
    THEN IF code # "ENOENT" THEN "rethrow" ELSE "resolve"
    ELSE "exit"

\* What the 'error' listener does with the error, lines 118-140.
pipeErrorOutcome(dev, code) ==
    IF dev
    THEN IF code # "ENOENT" /\ code # "ETIMEDOUT" THEN "rethrow" ELSE "resolve"
    ELSE "exit"

\* The pipe's 'error' listener, lines 111-141. The socket is destroyed and its
\* 'close' follows in the same turn of the event loop; whether it still follows
\* an 'error' listener that threw depends on the runtime's version (closes).
PipeError(code, closes) ==
    /\ Quiet
    /\ pipeClient \in {"connecting", "connected"}
    /\ LET e1 == reportClientEvents(Effects,
                     addEvent(NoEvents, ClientEventType.PIPE_CONNECTION_ERROR))
           outcome == IF e1.threw THEN "threw" ELSE pipeErrorOutcome(argv.dev, code)
           e2 == CASE outcome = "rethrow" -> [e1 EXCEPT !.threw = TRUE]
                   [] outcome = "exit" -> [e1 EXCEPT !.timers = waitAndExit(@, 1, NoNumber)]
                   [] OTHER -> e1
           settled == IF whenPipeConnected # "pending" \/ outcome = "threw"
                      THEN whenPipeConnected
                      ELSE IF outcome = "resolve" THEN "resolved" ELSE "rejected"
           closing == IF closes THEN <<"pipeClose">> ELSE <<>>
       IN  /\ closes \/ e2.threw
           /\ whenPipeConnected' = settled
           /\ microtasks' = IF settled = whenPipeConnected THEN closing
                            ELSE IF settled = "resolved" THEN Append(closing, "pipeThen")
                            ELSE Append(closing, "pipeCatch")
           /\ Commit(TopLevel(e2))
    /\ pipeFailure' = IF pipeClient = "connecting" THEN code ELSE pipeFailure
    /\ pipeClient' = "errored"
    /\ UNCHANGED <<toolVars, argv, cleared, phase, exitCode, exitTimer, instanceConfig,
                   stageWarnings,
                   safeCloseTimeout, latePulses, sincePulse, crashCount, lastCrash,
                   whenAppReady, initRegistered, stdoutTee, mainWindow, win, winEvents,
                   ui, initCount>>

\* A 'close' listener that leaves process.stdout.write as it is.
PipeCloseNoRestore ==
    /\ phase = "running"
    /\ IF microtasks # <<>>
       THEN Head(microtasks) = "pipeClose" /\ microtasks' = Tail(microtasks)
       ELSE Quiet /\ pipeClient \in {"connected", "ended"} /\ microtasks' = microtasks
    /\ pipeClient' = "closed"
    /\ stdoutTee' = stdoutTee
    /\ UNCHANGED <<toolVars, argv, cleared, phase, exitCode, exitTimer, instanceConfig,
                   stageWarnings,
                   timers, safeCloseTimeout, latePulses, sincePulse, crashCount,
                   lastCrash, whenPipeConnected, whenAppReady, initRegistered,
                   pipeFailure, mainWindow, win, winEvents, ui, initCount,
                   quitting, reported, pendingReports, clearOps, uncaughtCount>>

\* The pipe's 'close' listener, lines 141-147: restore process.stdout.write.
\* The pipe closes after an error, after pipeClient.end(), or when the server
\* closes it.
PipeClose ==
    /\ phase = "running"
    /\ IF microtasks # <<>>
       THEN Head(microtasks) = "pipeClose" /\ microtasks' = Tail(microtasks)
       ELSE Quiet /\ pipeClient \in {"connected", "ended"} /\ microtasks' = microtasks
    /\ pipeClient' = "closed"
    /\ stdoutTee' = FALSE
    /\ UNCHANGED <<toolVars, argv, cleared, phase, exitCode, exitTimer, instanceConfig,
                   stageWarnings,
                   timers, safeCloseTimeout, latePulses, sincePulse, crashCount,
                   lastCrash, whenPipeConnected, whenAppReady, initRegistered,
                   pipeFailure, mainWindow, win, winEvents, ui, initCount,
                   quitting, reported, pendingReports, clearOps, uncaughtCount>>

\* ------------------------------------------------------------ the heartbeat
\* The renderer can send IPC messages: the page is loaded in an open window.
RendererAlive == ui = "loaded" /\ win = "open"

\* The listener without its clearTimeout: the timer set before stays pending.
healthCheckPulseNoClear(ts, handle) == setCrashTimeout(ts, HEALTH_CHECK_TIMEOUT)

\* The 'health-check-pulse' listener's two statements, lines 417-418.
healthCheckPulse(ts, handle) ==
    setCrashTimeout(clearTimeout(ts, handle), HEALTH_CHECK_TIMEOUT)

\* ipc.on('health-check-pulse'), lines 416-419.
HealthCheckPulse ==
    /\ Quiet
    /\ RendererAlive
    /\ crashCount > 0 => latePulses < MaxLatePulses
    /\ latePulses' = IF crashCount > 0 THEN latePulses + 1 ELSE latePulses
    /\ timers' = healthCheckPulse(timers, safeCloseTimeout)
    /\ safeCloseTimeout' = NextHandle(clearTimeout(timers, safeCloseTimeout))
    /\ sincePulse' = 0
    /\ UNCHANGED <<toolVars, argv, cleared, phase, exitCode, exitTimer, instanceConfig,
                   stageWarnings,
                   crashCount, lastCrash, whenPipeConnected, whenAppReady,
                   initRegistered, microtasks, pipeClient, pipeFailure, stdoutTee,
                   mainWindow, win, winEvents, ui, initCount, quitting, reported,
                   pendingReports, clearOps, uncaughtCount>>

\* The heartbeat timer fires: crashCallback, lines 378-393, up to clearAppData.
CrashCallback ==
    /\ Idle
    /\ \E t \in timers :
        /\ t.kind = "crash" /\ First(timers, t)
        /\ crashCount' = crashCount + 1
        /\ lastCrash' = {[n |-> t.n, delay |-> t.delay, elapsed |-> t.elapsed,
                          sincePulse |-> sincePulse]}
        /\ sincePulse' = NoNumber
        /\ Commit(TopLevel(clearAppData([Effects EXCEPT !.timers = @ \ {t}], "crash")))
    /\ UNCHANGED <<toolVars, argv, cleared, phase, exitCode, exitTimer, instanceConfig,
                   stageWarnings,
                   safeCloseTimeout, latePulses, whenPipeConnected, whenAppReady,
                   initRegistered, microtasks, pipeClient, pipeFailure, stdoutTee,
                   mainWindow, win, winEvents, ui, initCount>>

\* The callback clearAppData was given: crashCallback's (lines 385-392) reports
\* HEALTH_CHECK_ERROR and calls reportErrorAndExit; the others only log or answer.
clearedCallback(e, kind) ==
    IF kind = "crash"
    THEN LET e1 == reportClientEvents(e, addEvent(NoEvents, ClientEventType.HEALTH_CHECK_ERROR))
         IN  IF e1.threw THEN e1 ELSE reportErrorAndExit(e1)
    ELSE e

\* clearStorageData's callback and then clearCache's, lines 361-365: the data
\* is cleared and the callback is called. Nothing in the program tells the two
\* stages apart, so an operation is kept as one step.
AppDataCleared(kind) ==
    /\ Quiet
    /\ clearOps[kind] > 0
    /\ cleared' = IF kind \in ShutdownKinds THEN cleared \cup {kind} ELSE cleared
    /\ Commit(TopLevel(clearedCallback(
                  [Effects EXCEPT !.clearOps[kind] = @ - 1], kind)))
    /\ UNCHANGED <<toolVars, argv, phase, exitCode, exitTimer, instanceConfig,
                   stageWarnings,
                   safeCloseTimeout, latePulses, sincePulse, crashCount, lastCrash,
                   whenPipeConnected, whenAppReady, initRegistered, microtasks,
                   pipeClient, pipeFailure, stdoutTee, mainWindow, win, winEvents, ui,
                   initCount>>

\* ---------------------------------------------------- reports, exit and quit
\* A reportError promise settles (fulfilled or rejected alike): .finally runs
\* waitAndExit(1), lines 449-451 and 474-476.
ReportSettled ==
    /\ Quiet
    /\ pendingReports > 0
    /\ pendingReports' = pendingReports - 1
    /\ timers' = waitAndExit(timers, 1, NoNumber)
    /\ UNCHANGED <<toolVars, argv, cleared, phase, exitCode, exitTimer, instanceConfig,
                   stageWarnings,
                   safeCloseTimeout, latePulses, sincePulse, crashCount, lastCrash,
                   whenPipeConnected, whenAppReady, initRegistered, microtasks,
                   pipeClient, pipeFailure, stdoutTee, mainWindow, win, winEvents, ui,
                   initCount, quitting, reported, clearOps, uncaughtCount>>

\* waitAndExit's timer fires: process.exit(errorCode), lines 425-427.
ProcessExit ==
    /\ Idle
    /\ \E t \in timers :
        /\ t.kind = "exit" /\ First(timers, t)
        /\ exitTimer' = {t}
        /\ exitCode' = t.code
        /\ timers' = timers \ {t}
    /\ phase' = "exited"
    /\ UNCHANGED <<toolVars, argv, cleared, instanceConfig, stageWarnings,
                   safeCloseTimeout, latePulses,
                   sincePulse, crashCount, lastCrash, whenPipeConnected, whenAppReady,
                   initRegistered, microtasks, pipeClient, pipeFailure, stdoutTee,
                   mainWindow, win, winEvents, ui, initCount, quitting, reported,
                   pendingReports, clearOps, uncaughtCount>>

\* waitAndQuit's timer fires: app.quit(), lines 433-435.
QuitTimer ==
    /\ Idle
    /\ \E t \in timers :
        /\ t.kind = "quit" /\ First(timers, t)
        /\ Commit(appQuit([Effects EXCEPT !.timers = @ \ {t}]))
    /\ UNCHANGED <<toolVars, argv, cleared, phase, exitCode, exitTimer, instanceConfig,
                   stageWarnings,
                   safeCloseTimeout, latePulses, sincePulse, crashCount, lastCrash,
                   whenPipeConnected, whenAppReady, initRegistered, microtasks,
                   pipeClient, pipeFailure, stdoutTee, mainWindow, win, winEvents, ui,
                   initCount>>

\* ipc.on('quit'), lines 348-350.
IpcQuit ==
    /\ Quiet
    /\ RendererAlive
    /\ timers' = waitAndQuit(timers, NoNumber)
    /\ UNCHANGED <<toolVars, argv, cleared, phase, exitCode, exitTimer, instanceConfig,
                   stageWarnings,
                   safeCloseTimeout, latePulses, sincePulse, crashCount, lastCrash,
                   whenPipeConnected, whenAppReady, initRegistered, microtasks,
                   pipeClient, pipeFailure, stdoutTee, mainWindow, win, winEvents, ui,
                   initCount, quitting, reported, pendingReports, clearOps,
                   uncaughtCount>>

\* ipc.on('clear-app-data'), lines 372-376.
IpcClearAppData ==
    /\ Quiet
    /\ RendererAlive
    /\ clearOps["clear-app-data"] = 0
    /\ Commit(TopLevel(clearAppData(Effects, "clear-app-data")))
    /\ UNCHANGED <<toolVars, argv, cleared, phase, exitCode, exitTimer, instanceConfig,
                   stageWarnings,
                   safeCloseTimeout, latePulses, sincePulse, crashCount, lastCrash,
                   whenPipeConnected, whenAppReady, initRegistered, microtasks,
                   pipeClient, pipeFailure, stdoutTee, mainWindow, win, winEvents, ui,
                   initCount>>

\* ------------------------------------------------------ windows and quitting
\* The window is closed (by the user or the page) while the app is not quitting:
\* the toolkit will deliver 'closed' to the window and 'window-all-closed' to
\* the app; their order is the toolkit's.
CloseWindow ==
    /\ Quiet
    /\ win = "open" /\ ~quitting
    /\ win' = "closing"
    /\ winEvents' = {"closed", "window-all-closed"}
    /\ UNCHANGED <<toolVars, argv, cleared, phase, exitCode, exitTimer, instanceConfig,
                   stageWarnings,
                   timers, safeCloseTimeout, latePulses, sincePulse, crashCount,
                   lastCrash, whenPipeConnected, whenAppReady, initRegistered,
                   microtasks, pipeClient, pipeFailure, stdoutTee, mainWindow, ui,
                   initCount, quitting, reported, pendingReports, clearOps,
                   uncaughtCount>>

\* app.quit() closes the windows; 'window-all-closed' is not emitted then.
QuitClosesWindow ==
    /\ Quiet
    /\ win = "open" /\ quitting
    /\ win' = "closing"
    /\ winEvents' = {"closed"}
    /\ UNCHANGED <<toolVars, argv, cleared, phase, exitCode, exitTimer, instanceConfig,
                   stageWarnings,
                   timers, safeCloseTimeout, latePulses, sincePulse, crashCount,
                   lastCrash, whenPipeConnected, whenAppReady, initRegistered,
                   microtasks, pipeClient, pipeFailure, stdoutTee, mainWindow, ui,
                   initCount, quitting, reported, pendingReports, clearOps,
                   uncaughtCount>>

\* mainWindow.on('closed'), lines 210-212.
WindowClosed ==
    /\ Quiet
    /\ "closed" \in winEvents
    /\ mainWindow' = "null"
    /\ winEvents' = winEvents \ {"closed"}
    /\ win' = "closed"
    /\ UNCHANGED <<toolVars, argv, cleared, phase, exitCode, exitTimer, instanceConfig,
                   stageWarnings,
                   timers, safeCloseTimeout, latePulses, sincePulse, crashCount,
                   lastCrash, whenPipeConnected, whenAppReady, initRegistered,
                   microtasks, pipeClient, pipeFailure, stdoutTee, ui, initCount,
                   quitting, reported, pendingReports, clearOps, uncaughtCount>>

\* app.on('window-all-closed'), lines 152-158.
WindowAllClosed ==
    /\ Quiet
    /\ "window-all-closed" \in winEvents /\ ~quitting
    /\ winEvents' = winEvents \ {"window-all-closed"}
    /\ LET e1 == clearAppData(Effects, "window-all-closed")
       IN  Commit(IF e1.threw THEN TopLevel(e1) ELSE appQuit(e1))
    /\ UNCHANGED <<toolVars, argv, cleared, phase, exitCode, exitTimer, instanceConfig,
                   stageWarnings,
                   safeCloseTimeout, latePulses, sincePulse, crashCount, lastCrash,
                   whenPipeConnected, whenAppReady, initRegistered, microtasks,
                   pipeClient, pipeFailure, stdoutTee, mainWindow, win, ui, initCount>>

\* app.on('will-quit'), lines 318-327, once every window is closed; the
\* application then quits.
WillQuit ==
    /\ Quiet
    /\ quitting /\ win # "open" /\ "closed" \notin winEvents
    /\ LET e1 == clearAppData(Effects, "will-quit")
       IN  /\ pipeClient' = IF ~e1.threw /\ argv.pipe
                            THEN "ended" ELSE pipeClient
           /\ Commit(TopLevel(e1))
    /\ phase' = "quit"
    /\ exitCode' = 0
    /\ UNCHANGED <<toolVars, argv, cleared, exitTimer, instanceConfig, stageWarnings,
                   safeCloseTimeout,
                   latePulses, sincePulse, crashCount, lastCrash, whenPipeConnected,
                   whenAppReady, initRegistered, microtasks, pipeFailure, stdoutTee,
                   mainWindow, win, winEvents, ui, initCount>>

\* -------------------------------------------------------------------- time
\* Time passes while timers are pending. A timer that is due runs before the
\* clock moves on, and so do the events the toolkit emits back to back: those
\* of a closing window, and those of app.quit().
Tick ==
    /\ Quiet
    /\ timers # {}
    /\ winEvents = {} /\ ~quitting
    /\ timers' = {[t EXCEPT !.elapsed = @ + TimeStep] : t \in timers}
    /\ sincePulse' = IF sincePulse = NoNumber THEN NoNumber ELSE sincePulse + TimeStep
    /\ UNCHANGED <<toolVars, argv, cleared, phase, exitCode, exitTimer, instanceConfig,
                   stageWarnings,
                   safeCloseTimeout, latePulses, crashCount, lastCrash,
                   whenPipeConnected, whenAppReady, initRegistered, microtasks,
                   pipeClient, pipeFailure, stdoutTee, mainWindow, win, winEvents, ui,
                   initCount, quitting, reported, pendingReports, clearOps,
                   uncaughtCount>>

Next ==
    \/ Main
    \/ PipeThen
    \/ PipeCatch
    \/ AppReady
    \/ \E created \in BOOLEAN : InitApp(created)
    \/ \E err \in BOOLEAN : ReadFileDone(err)
    \/ PipeConnect
    \/ \E code \in ErrorCodes, closes \in BOOLEAN : PipeError(code, closes)
    \/ PipeClose
    \/ HealthCheckPulse
    \/ CrashCallback
    \/ \E kind \in ClearKinds : AppDataCleared(kind)
    \/ ReportSettled
    \/ ProcessExit
    \/ QuitTimer
    \/ IpcQuit
    \/ IpcClearAppData
    \/ CloseWindow
    \/ QuitClosesWindow
    \/ WindowClosed
    \/ WindowAllClosed
    \/ WillQuit
    \/ Tick

Spec == Init /\ [][Next]_vars

\* What the event loop and the toolkit guarantee: promise reactions and the
\* pipe's 'close' after an 'error' are run, time passes, a timer that is due
\* runs, and the events of a closing window and of app.quit() are delivered.
\* Nothing is assumed of the outside: that the pipe server answers, that the
\* application becomes ready, what the renderer or the user does, or that a
\* request to the telemetry service ever settles (it is sent with no timeout).
FairSpec ==
    /\ Spec
    /\ WF_vars(PipeThen) /\ WF_vars(PipeCatch)
    /\ WF_vars(\E created \in BOOLEAN : InitApp(created))
    /\ WF_vars(microtasks # <<>> /\ PipeClose)
    /\ WF_vars(Tick)
    /\ WF_vars(CrashCallback) /\ WF_vars(ProcessExit) /\ WF_vars(QuitTimer)
    /\ WF_vars(WindowClosed) /\ WF_vars(WindowAllClosed)
    /\ WF_vars(QuitClosesWindow) /\ WF_vars(WillQuit)

\* ============================================== randompassword.c, main
\* The notifier is not run: it stays as it is when launched.
NotifierNotRun ==
    /\ NotifierInit
    /\ argv = [username |-> "jdoe", stage |-> "gamma", dev |-> FALSE, pipe |-> FALSE]

PwInit == NotifierNotRun /\ PwStart /\ WdNotRun

\* lines 38-41: open("/dev/urandom", O_RDONLY); on failure perror and exit(1).
PwOpen(ok) ==
    /\ pwPc = "open"
    /\ fd' = IF ok THEN 3 ELSE NoNumber
    /\ IF ok
       THEN /\ pwPc' = "read"
            /\ UNCHANGED <<pwStderr, pwExit>>
       ELSE /\ pwPc' = "exited"
            /\ pwStderr' = pwStderr + 1
            /\ pwExit' = 1
    /\ UNCHANGED <<notifierVars, wdVars, urandom, nread, rbuf, i, j, pw, pwStdout>>

\* lines 42-45: read returns n, -1 for an error, having stored n bytes; a
\* result below RNDBUFSIZ: message and exit(1).
PwRead(n) ==
    /\ pwPc = "read"
    /\ nread' = n
    /\ rbuf' = [p \in 1..RNDBUFSIZ |-> IF p <= n THEN urandom[p] ELSE rbuf[p]]
    /\ IF readTooShort(n)
       THEN /\ pwPc' = "exited"
            /\ pwStderr' = pwStderr + 1
            /\ pwExit' = 1
       ELSE /\ pwPc' = "loop"
            /\ UNCHANGED <<pwStderr, pwExit>>
    /\ UNCHANGED <<notifierVars, wdVars, urandom, fd, i, j, pw, pwStdout>>

\* lines 46-58: one turn of the loop.
PwEncode ==
    /\ pwPc = "loop"
    /\ i < RNDBUFSIZ
    /\ LET octet_a == IF i < RNDBUFSIZ THEN rbuf[i + 1] ELSE 0
           i1 == IF i < RNDBUFSIZ THEN i + 1 ELSE i
           octet_b == IF i1 < RNDBUFSIZ THEN rbuf[i1 + 1] ELSE 0
           i2 == IF i1 < RNDBUFSIZ THEN i1 + 1 ELSE i1
           octet_c == IF i2 < RNDBUFSIZ THEN rbuf[i2 + 1] ELSE 0
           i3 == IF i2 < RNDBUFSIZ THEN i2 + 1 ELSE i2
           tr == triple(octet_a, octet_b, octet_c)
       IN  /\ i' = i3
           /\ pw' = pw \o <<symbol(tr, 3), symbol(tr, 2), symbol(tr, 1), symbol(tr, 0)>>
           /\ j' = j + 4
    /\ UNCHANGED <<notifierVars, wdVars, urandom, pwPc, fd, nread, rbuf, pwStdout, pwStderr,
                   pwExit>>

\* lines 59-61: terminate the string, printf("%s", pw), exit(0). No entry of
\* the table is the NUL character, so the whole of pw is printed.
PwPrint ==
    /\ pwPc = "loop"
    /\ i >= RNDBUFSIZ
    /\ pwStdout' = pwStdout \o pw
    /\ pwExit' = 0
    /\ pwPc' = "exited"
    /\ UNCHANGED <<notifierVars, wdVars, urandom, fd, nread, rbuf, i, j, pw, pwStderr>>

PwNext ==
    \/ \E ok \in BOOLEAN : PwOpen(ok)
    \/ \E n \in (0 - 1)..RNDBUFSIZ : PwRead(n)
    \/ PwEncode
    \/ PwPrint

PwSpec == PwInit /\ [][PwNext]_vars

\* ============================= parentalcontrolsd_terminator.sh, the script
WdInit == NotifierNotRun /\ PwNotRun /\ WdStart

\* lines 10-15: APP_PID=$(pgrep "$APP_NAME"); nothing found: log and exit 0.
WdLookup ==
    /\ wdPc = "pgrep"
    /\ APP_PID' = proc
    /\ IF proc = 0
       THEN wdPc' = "exited" /\ status' = 0 /\ wdExit' = 0
       ELSE wdPc' = "ps" /\ status' = 0 /\ wdExit' = wdExit
    /\ UNCHANGED <<notifierVars, pwVars, proc, lastPid, APP_CPU, CPU_PERCENTAGE,
                   recheck, sent>>

\* lines 17-21: ps prints the reading t of process $APP_PID, or nothing when
\* that process is gone; the reading is scaled.
WdMeasure(t) ==
    /\ wdPc = "ps"
    /\ LET appCpu == IF proc = APP_PID THEN t ELSE NoNumber
       IN  /\ APP_CPU' = appCpu
           /\ CPU_PERCENTAGE' = cpuPercentage(appCpu)
    /\ status' = 0
    /\ wdPc' = "test"
    /\ UNCHANGED <<notifierVars, pwVars, proc, lastPid, APP_PID, recheck, sent, wdExit>>

\* lines 23-25 and 36-38: the test; below the limit the script logs and
\* ends with the status of its last command, the logger.
WdCompare ==
    /\ wdPc = "test"
    /\ IF reachesLimit(CPU_PERCENTAGE, cpuLimitPercentage(CPU_LIMIT))
       THEN wdPc' = "kill" /\ status' = 0 /\ wdExit' = wdExit
       ELSE wdPc' = "exited" /\ status' = 0 /\ wdExit' = 0
    /\ UNCHANGED <<notifierVars, pwVars, proc, lastPid, APP_PID, APP_CPU,
                   CPU_PERCENTAGE, recheck, sent>>

\* line 26: kill "$APP_PID" sends SIGTERM; it fails when the process is gone.
\* What the process does on SIGTERM, and when, is its own matter (WdProcExits).
WdKill ==
    /\ wdPc = "kill"
    /\ sent' = Append(sent, "kill")
    /\ status' = IF proc = APP_PID THEN 0 ELSE 1
    /\ wdPc' = "sleep"
    /\ UNCHANGED <<notifierVars, pwVars, proc, lastPid, APP_PID, APP_CPU,
                   CPU_PERCENTAGE, recheck, wdExit>>

\* line 28: sleep 5
WdSleep ==
    /\ wdPc = "sleep"
    /\ sent' = Append(sent, "sleep")
    /\ status' = 0
    /\ wdPc' = "recheck"
    /\ UNCHANGED <<notifierVars, pwVars, proc, lastPid, APP_PID, APP_CPU,
                   CPU_PERCENTAGE, recheck, wdExit>>

\* lines 30-35: if [ $(pgrep "$APP_NAME") ]; nothing found: log, and the
\* script ends with the logger's status.
WdRecheck ==
    /\ wdPc = "recheck"
    /\ recheck' = proc
    /\ IF proc # 0
       THEN wdPc' = "killall" /\ status' = 0 /\ wdExit' = wdExit
       ELSE wdPc' = "exited" /\ status' = 0 /\ wdExit' = 0
    /\ UNCHANGED <<notifierVars, pwVars, proc, lastPid, APP_PID, APP_CPU,
                   CPU_PERCENTAGE, sent>>

\* lines 31-32: killall -9 "$APP_NAME" kills the process, or fails with status
\* 1 when no process has the name; it is the script's last command, so its
\* status is the script's exit code.
WdKillall ==
    /\ wdPc = "killall"
    /\ sent' = Append(sent, "killall")
    /\ proc' = 0
    /\ status' = IF proc # 0 THEN 0 ELSE 1
    /\ wdExit' = status'
    /\ wdPc' = "exited"
    /\ UNCHANGED <<notifierVars, pwVars, lastPid, APP_PID, APP_CPU, CPU_PERCENTAGE,
                   recheck>>

\* parentalcontrolsd ends, of itself or on the SIGTERM it was sent.
WdProcExits ==
    /\ wdPc # "exited"
    /\ proc # 0
    /\ proc' = 0
    /\ UNCHANGED <<notifierVars, pwVars, lastPid, wdPc, APP_PID, APP_CPU,
                   CPU_PERCENTAGE, recheck, sent, status, wdExit>>

\* parentalcontrolsd is started (again), with a new pid.
WdProcStarts ==
    /\ wdPc # "exited"
    /\ proc = 0
    /\ lastPid < MaxPid
    /\ proc' = lastPid + 1
    /\ lastPid' = lastPid + 1
    /\ UNCHANGED <<notifierVars, pwVars, wdPc, APP_PID, APP_CPU, CPU_PERCENTAGE,
                   recheck, sent, status, wdExit>>

WdNext ==
    \/ WdLookup
    \/ \E t \in CpuReadings : WdMeasure(t)
    \/ WdCompare
    \/ WdKill
    \/ WdSleep
    \/ WdRecheck
    \/ WdKillall
    \/ WdProcExits
    \/ WdProcStarts

WdSpec == WdInit /\ [][WdNext]_vars

\* ================================================================ properties
CrashTimers == {t \in timers : t.kind = "crash"}
ExitTimers == {t \in timers : t.kind = "exit"}
BothReady == whenPipeConnected = "resolved" /\ whenAppReady = "resolved"
HealthCheckErrorBatch == addEvent(NoEvents, ClientEventType.HEALTH_CHECK_ERROR)
PipeErrorBatch == addEvent(NoEvents, ClientEventType.PIPE_CONNECTION_ERROR)
\* The connection attempt failed: fatally, or in a way developer mode tolerates.
ToleratedCodes == {"ENOENT", "ETIMEDOUT"}
FatalPipeFailure ==
    pipeFailure # NoValue /\ (~argv.dev \/ pipeFailure \notin ToleratedCodes)
ToleratedPipeFailure == argv.dev /\ pipeFailure \in ToleratedCodes

\* C1. Readiness join: initApp runs at most once, only when both the pipe
\* promise and the 'ready' promise are resolved, and it has run as soon as
\* both are resolved and the promise reactions have been run, whichever of
\* the two resolved last.
C1_ReadinessJoin ==
    /\ initCount <= 1
    /\ initCount = 1 => BothReady
    /\ BothReady /\ microtasks = <<>> => initCount = 1

\* initApp has run after the pipe connected.
C1_Witness == initCount = 1 /\ pipeClient = "connected" /\ mainWindow = "window"

\* C2. Delayed exit: every exit timer waits at least the default wait (no
\* caller passes a wait time), and the process has exited only from the
\* callback of such a timer, after the timer's delay had elapsed, with the
\* code the timer was set with.
C2_DelayedExit ==
    /\ \A t \in ExitTimers : t.delay >= DEFAULT_WAIT_TIME
    /\ phase = "exited" =>
           \E t \in exitTimer : /\ t.kind = "exit"
                                /\ t.delay >= DEFAULT_WAIT_TIME
                                /\ t.elapsed >= t.delay
                                /\ exitCode = t.code

\* The process has exited on the uncaught-exception path.
C2_Witness == phase = "exited" /\ exitCode = 1 /\ uncaughtCount > 0

\* C3. Single crash sequence: crashCallback runs at most once, and
\* HEALTH_CHECK_ERROR is reported at most once.
C3_SingleCrashSequence ==
    crashCount <= 1 /\ reported[HealthCheckErrorBatch] <= 1

\* C4. Heartbeat rearm: after a pulse the one pending heartbeat timer has the
\* delay HEALTH_CHECK_TIMEOUT and has been running exactly since the pulse,
\* and a timer set by a pulse has run crashCallback no sooner than
\* HEALTH_CHECK_TIMEOUT after that pulse.
C4_HeartbeatRearm ==
    /\ sincePulse # NoNumber =>
           /\ CrashTimers # {}
           /\ \A t \in CrashTimers :
                  t.delay = HEALTH_CHECK_TIMEOUT /\ t.elapsed = sincePulse
    /\ \A c \in lastCrash :
           c.sincePulse # NoNumber => c.sincePulse >= HEALTH_CHECK_TIMEOUT

\* A timer armed by a pulse that came before the deadline has fired.
C4_Witness ==
    /\ latePulses = 0
    /\ \E c \in lastCrash :
           c.sincePulse # NoNumber /\ c.delay = HEALTH_CHECK_TIMEOUT

\* C5. No rearm after the timer fired: once crashCallback has run, no
\* heartbeat timer is pending.
C5_NoRearmAfterFire == crashCount > 0 => CrashTimers = {}

\* C6. Liveness-timeout handling: every run of crashCallback has started
\* clearing the app data, and the clearing is under way or has completed and
\* HEALTH_CHECK_ERROR has been reported.
C6_CrashClearsThenReports ==
    clearOps["crash"] + reported[HealthCheckErrorBatch] = crashCount

\* C7. The heartbeat timer is armed only once the window exists: before
\* initApp has run no heartbeat timer is pending and crashCallback has not run.
C7_TimerOnlyWithWindow ==
    initCount = 0 => CrashTimers = {} /\ crashCount = 0

\* C8. Missing username aborts start-up: without a username initApp never runs.
C8_NoUsernameNoInit == argv.username = NoValue => initCount = 0

\* C9. Fatal pipe failure: after it PIPE_CONNECTION_ERROR has been reported,
\* the pipe promise is rejected and initApp has not run, and the process
\* ends by a delayed exit with code 1.
C9_FatalPipeFailureExits ==
    /\ [](FatalPipeFailure =>
             /\ reported[PipeErrorBatch] >= 1
             /\ whenPipeConnected = "rejected"
             /\ initCount = 0)
    /\ FatalPipeFailure ~> (phase = "exited" /\ exitCode = 1)

\* What holds after a fatal pipe failure: the report, the rejection, no
\* initApp, no quit, exit code 1 from a delayed-exit timer if the process has
\* exited, and while it runs an exit that is scheduled: outside developer
\* mode by the listener itself, in developer mode only once an error report
\* has settled.
FatalPipeFailureSafety ==
    FatalPipeFailure =>
        /\ reported[PipeErrorBatch] >= 1
        /\ whenPipeConnected = "rejected"
        /\ initCount = 0
        /\ phase # "quit"
        /\ phase = "exited" =>
               exitCode = 1 /\ \E t \in exitTimer : t.elapsed >= DEFAULT_WAIT_TIME
        /\ phase = "running" /\ ~argv.dev => ExitTimers # {}
        /\ phase = "running" /\ microtasks = <<>> =>
               ExitTimers # {} \/ pendingReports > 0

\* After a tolerated failure the pipe promise is resolved, and initApp has run
\* once the application is ready too.
ToleratedThenReady ==
    ToleratedPipeFailure =>
        /\ whenPipeConnected = "resolved"
        /\ whenAppReady = "resolved" /\ microtasks = <<>> => initCount = 1

\* The step of the 'error' listener on a tolerated failure: it reports
\* PIPE_CONNECTION_ERROR and nothing else.
ToleratedListenerStep ==
    pipeFailure = NoValue /\ ToleratedPipeFailure' =>
        /\ ExitTimers' = ExitTimers
        /\ pendingReports' = pendingReports
        /\ uncaughtCount' = uncaughtCount
        /\ reported'[PipeErrorBatch] = reported[PipeErrorBatch] + 1

\* C10. Tolerated pipe failure: in developer mode, after a connection error
\* ENOENT or ETIMEDOUT the pipe promise is resolved and initApp has run once
\* the application is ready too; the listener's step schedules no exit,
\* starts no error report and reaches no uncaught exception.
C10_ToleratedPipeFailure == [](ToleratedThenReady) /\ [][ToleratedListenerStep]_vars

\* The connection timed out in developer mode and initApp has run.
C10_Witness ==
    ToleratedPipeFailure /\ pipeFailure = "ETIMEDOUT" /\ initCount = 1

\* C11. Stage resolution: once the start-up script has run, a stage argument
\* that is not exactly one of alpha, integ, gamma, prod has left the stage at
\* prod with exactly one warning logged, and has by itself neither ended the
\* process nor scheduled an exit nor raised an exception; a recognized stage
\* is kept as given with no warning.
C11_StageResolution ==
    phase # "boot" =>
        /\ argv.stage \notin VALID_STAGES_LIST =>
               /\ instanceConfig.stage = STAGES.PROD
               /\ stageWarnings = 1
               /\ argv.username # NoValue /\ initCount = 0 /\ crashCount = 0
                      /\ reported[PipeErrorBatch] = 0 =>
                      phase = "running" /\ ExitTimers = {} /\ uncaughtCount = 0
        /\ argv.stage \in VALID_STAGES_LIST =>
               instanceConfig.stage = argv.stage /\ stageWarnings = 0

\* Launched with the stage "PROD" (not the key "prod"), the application has
\* come up on the prod stage: initApp has run and the page is loaded.
C11_Witness ==
    /\ argv.stage = "PROD" /\ instanceConfig.stage = STAGES.PROD
    /\ stageWarnings = 1 /\ initCount = 1 /\ ui = "loaded"

\* C12. Clearing before quitting: when the application has quit or the
\* process has terminated, a clearAppData operation of the way out has
\* completed and none is still under way.
C12_ClearedBeforeQuit ==
    phase \in {"quit", "exited"} =>
        /\ cleared # {}
        /\ \A k \in ShutdownKinds : clearOps[k] = 0

\* The same for the toolkit's quit alone: after 'window-all-closed' or the
\* 'quit' request the application has quit with the clearing completed.
C12_QuitCleared ==
    phase = "quit" =>
        /\ cleared \cap {"window-all-closed", "will-quit"} # {}
        /\ \A k \in ShutdownKinds : clearOps[k] = 0

\* The timers of the given kind that run in this step, having waited.
Waited(kind) ==
    {t \in timers \ timers' :
        t.kind = kind /\ t.delay >= DEFAULT_WAIT_TIME /\ t.elapsed >= t.delay}

\* A step that calls app.quit() or process.exit() is the callback of a
\* timer of waitAndRun that has waited its delay.
QuitOnlyAfterWait ==
    /\ ~quitting /\ quitting' => Waited("quit") # {}
    /\ phase # "exited" /\ phase' = "exited" => Waited("exit") # {}

\* C13. Both quit mechanisms wait: app.quit() (after 'window-all-closed' or
\* the 'quit' request) and process.exit() (fatal errors) are called only from
\* a timer of waitAndRun that has waited, never in the triggering handler.
C13_QuitOnlyAfterWait == [][QuitOnlyAfterWait]_vars

\* C14. Reporting does not block the exit: after a fatal error
\* (reportErrorAndExit, handleUncaughtException) the delayed exit is
\* scheduled without waiting for the error report, so while the process runs
\* with such a report not yet settled an exit timer is pending.
C14_ExitNotBlockedByReport ==
    phase = "running" /\ pendingReports > 0 => ExitTimers # {}

\* The same as a progress property: once an error report has been started
\* the process ends, whether or not the report ever settles.
ReportStartedLeadsToEnd ==
    pendingReports > 0 ~> phase \in {"exited", "quit"}

\* C15. Uncaught exceptions end in exit code 1: once handleUncaughtException
\* has run, the process ends in no other way than by the delayed exit with
\* code 1.
C15_UncaughtExitsWithOne ==
    uncaughtCount > 0 /\ phase \in {"exited", "quit"} =>
        phase = "exited" /\ exitCode = 1

\* The same as a progress property: an uncaught exception leads to the exit
\* with code 1.
UncaughtLeadsToExit ==
    uncaughtCount > 0 ~> (phase = "exited" /\ exitCode = 1)

\* What handleUncaughtException does guarantee: while the process runs after
\* it, an exit with code 1 is scheduled or an error report is pending whose
\* settling schedules it, and a process that has exited has exited with 1.
UncaughtSafety ==
    /\ \A t \in ExitTimers : t.code = 1
    /\ phase = "exited" => exitCode = 1
    /\ uncaughtCount > 0 /\ phase = "running" =>
           ExitTimers # {} \/ pendingReports > 0

\* ---------------------------------------------------------- randompassword.c
\* Standard base64 bit-packing, from the bits: the bytes' bits, most
\* significant first, are cut into groups of six, and each group's value
\* selects a symbol of the table; no padding.
BitsOf(bytes) ==
    [q \in 1..(8 * Len(bytes)) |->
        (bytes[((q - 1) \div 8) + 1] \div (2 ^ (7 - ((q - 1) % 8)))) % 2]

SextetOf(bits, g) ==
    32 * bits[6 * g - 5] + 16 * bits[6 * g - 4] + 8 * bits[6 * g - 3]
        + 4 * bits[6 * g - 2] + 2 * bits[6 * g - 1] + bits[6 * g]

Base64Packed(bytes) ==
    [g \in 1..((8 * Len(bytes)) \div 6) |->
        encoding_table[SextetOf(BitsOf(bytes), g) + 1]]

TableSymbols == {encoding_table[k] : k \in 1..Len(encoding_table)}
AmbiguousSymbols == {"I", "O", "l", "/", "$"}
\* The program has printed a password and exited.
PwPrinted == pwPc = "exited" /\ pwExit = 0

\* C16. Encoding: the password printed for a 12-byte input has exactly 16
\* characters and is the standard base64 bit-packing of the input through
\* the 64-symbol table, with no padding; every character is of the table,
\* which has none of I, O, l, / and $; twelve zero bytes give sixteen "A".
C16_Encoding ==
    PwPrinted =>
        /\ Len(pwStdout) = PWLEN
        /\ pwStdout = Base64Packed(urandom)
        /\ \A k \in 1..Len(pwStdout) : pwStdout[k] \in TableSymbols
        /\ Len(encoding_table) = 64
        /\ TableSymbols \cap AmbiguousSymbols = {}
        /\ (\A p \in 1..RNDBUFSIZ : urandom[p] = 0) =>
               pwStdout = [k \in 1..PWLEN |-> "A"]

\* A password is printed for an input whose second group is 255, 85, 170:
\* its four symbols are "#", "1", "W" and "q".
C16_Witness ==
    /\ PwPrinted
    /\ urandom[4] = 255 /\ urandom[5] = 85 /\ urandom[6] = 170
    /\ SubSeq(pwStdout, 5, 8) = <<"#", "1", "W", "q">>

\* C17. Failure: the program has exited with 1 exactly when the entropy
\* source could not be opened or read returned fewer than 12 bytes, and then
\* standard output is empty; it has exited with 0 only after a full read,
\* with the 16 characters printed; nothing is printed before the exit.
C17_FailureExit ==
    /\ pwPc # "exited" => pwStdout = <<>> /\ pwExit = NoNumber
    /\ pwPc = "exited" =>
           /\ pwExit \in {0, 1}
           /\ pwExit = 1 <=> (fd = NoNumber \/ nread < RNDBUFSIZ)
           /\ pwExit = 1 => pwStdout = <<>>
           /\ pwExit = 0 => nread = RNDBUFSIZ /\ Len(pwStdout) = PWLEN

\* read returned 11 bytes: exit 1, nothing printed.
C17_Witness ==
    pwPc = "exited" /\ nread = RNDBUFSIZ - 1 /\ pwExit = 1 /\ pwStdout = <<>>

\* ------------------------------------------ parentalcontrolsd_terminator.sh
SignalsSent == {k \in 1..Len(sent) : sent[k] \in {"kill", "killall"}}
LimitPercentage == CPU_LIMIT * 100

\* C18. No signal: when the script has ended after finding no process at the
\* lookup, or after a reading below the limit of 5 %, it has run neither
\* kill nor killall -9 and its exit code is 0.
C18_NoSignalCases ==
    wdPc = "exited"
        /\ (APP_PID = 0 \/ (CPU_PERCENTAGE # NoNumber /\ CPU_PERCENTAGE < LimitPercentage)) =>
        SignalsSent = {} /\ wdExit = 0

\* The script has ended on a reading of 4.9 %.
C18_Witness ==
    wdPc = "exited" /\ APP_CPU = 49 /\ sent = <<>> /\ wdExit = 0

\* C19. Termination sequence: with a reading at or above the limit, the
\* script, once past line 26, has sent the graceful signal first; killall -9
\* has been run only after kill and the wait, in this order, and only when
\* the second pgrep found the process; when it found none, the script has
\* ended without killall -9.
C19_TerminationSequence ==
    /\ wdPc \in {"sleep", "recheck", "killall", "exited"}
           /\ CPU_PERCENTAGE # NoNumber /\ CPU_PERCENTAGE >= LimitPercentage =>
           sent # <<>> /\ sent[1] = "kill"
    /\ \A k \in 1..Len(sent) :
           sent[k] = "killall" =>
               /\ k = 3 /\ sent[1] = "kill" /\ sent[2] = "sleep"
               /\ recheck # NoNumber /\ recheck # 0
    /\ recheck = 0 => wdPc = "exited" /\ sent = <<"kill", "sleep">>

\* A reading of exactly 5.0 %, the process survived SIGTERM and got killall -9.
C19_Witness ==
    /\ wdPc = "exited" /\ APP_CPU = CPU_LIMIT * 10
    /\ sent = <<"kill", "sleep", "killall">> /\ status = 0

\* C20. Exit code: whenever the script has ended, its exit code is 0.
C20_ExitCodeZero == wdPc = "exited" => wdExit = 0

\* ------------------------------------------------------------ notifier, again
\* C21. One heartbeat timer: in every state at most one heartbeat timer is
\* pending, and it is the one whose handle safeCloseTimeout holds, so no
\* sequence of pulses leaves two timers that could both run crashCallback.
C21_OneHeartbeatTimer ==
    /\ Cardinality(CrashTimers) <= 1
    /\ \A t \in CrashTimers : t.n = safeCloseTimeout

\* A pulse has been received, time has passed, and the one pending heartbeat
\* timer is the one the pulse set.
C21_Witness ==
    /\ sincePulse # NoNumber /\ sincePulse > 0
    /\ Cardinality(CrashTimers) = 1
    /\ \E t \in CrashTimers : t.delay = HEALTH_CHECK_TIMEOUT /\ t.elapsed = sincePulse

LoadUiBatch == addEvent(NoEvents, ClientEventType.LOAD_UI)
LoadUiErrorBatch == addEvent(LoadUiBatch, ClientEventType.LOAD_UI_ERROR)
\* Reading the template has failed.
LoadFailed == reported[LoadUiErrorBatch] > 0

\* What holds after a failed read: the batch of LOAD_UI and LOAD_UI_ERROR was
\* flushed once and LOAD_UI was not flushed alone, no content is loaded, the
\* process has not exited with another code than 1, and while it runs an
\* exit is scheduled or an error report is pending whose settling schedules it.
LoadFailureSafety ==
    LoadFailed =>
        /\ reported[LoadUiErrorBatch] = 1
        /\ reported[LoadUiBatch] = 0
        /\ ui = "failed"
        /\ phase = "exited" => exitCode = 1
        /\ phase = "running" => ExitTimers # {} \/ pendingReports > 0

\* C22. Load failure is fatal and reported: after a failed read of the
\* template LOAD_UI_ERROR has been flushed exactly once, in the batch that
\* holds LOAD_UI, the window loads no content, and the process ends by the
\* delayed exit with code 1.
C22_LoadFailureExits ==
    /\ [](LoadFailed =>
             /\ reported[LoadUiErrorBatch] = 1
             /\ reported[LoadUiBatch] = 0
             /\ ui = "failed")
    /\ LoadFailed ~> (phase = "exited" /\ exitCode = 1)

\* Once the start-up script has run, the stored stage is one of the four,
\* and a setStage with another value would throw and leave it as it is.
StoredStageValid ==
    phase # "boot" =>
        /\ instanceConfig.stage \in VALID_STAGES_LIST
        /\ \A st \in StageArgs \cup {NoValue} :
               setStageThrows(st) => setStage(instanceConfig, st) = instanceConfig

\* No step after the start-up script changes the stored username or stage.
ConfigKept == phase # "boot" => instanceConfig' = instanceConfig

\* C23. The configuration is read-only after start-up: the stored stage is
\* always one of alpha, integ, gamma, prod, no later event changes the
\* stored username or stage, and setStage with an invalid value throws and
\* leaves the stored stage unchanged.
C23_ConfigReadOnly == [](StoredStageValid) /\ [][ConfigKept]_vars

\* The heartbeat timer has fired and its report is under way, long after
\* start-up: the configuration is what the start-up script stored.
C23_Witness ==
    /\ crashCount = 1 /\ reported[HealthCheckErrorBatch] = 1
    /\ instanceConfig = [username |-> "jdoe", stage |-> STAGES.GAMMA]

\* The pipe has connected and its 'close' event has not been delivered.
PipeOpen == pipeClient \in {"connected", "errored", "ended"} /\ pipeFailure = NoValue

\* Standard output is wrapped only on a pipe that has connected and has not
\* had its 'close' event.
TeeOnlyWhileOpen == stdoutTee => PipeOpen

\* The wrapper is installed by the connect listener alone, and the 'close'
\* listener leaves the original write in place.
TeeStep ==
    /\ ~stdoutTee /\ stdoutTee' => pipeClient = "connecting" /\ pipeClient' = "connected"
    /\ pipeClient # "closed" /\ pipeClient' = "closed" => ~stdoutTee'

CrashCallbackStep == crashCount' = crashCount + 1

WindowAllClosedStep ==
    "window-all-closed" \in winEvents /\ "window-all-closed" \notin winEvents'

WillQuitStep == phase # "quit" /\ phase' = "quit"

IpcClearAppDataStep ==
    clearOps'["clear-app-data"] = clearOps["clear-app-data"] + 1

ClearAppDataCalled ==
    CrashCallbackStep \/ WindowAllClosedStep \/ WillQuitStep \/ IpcClearAppDataStep

WindowExistsAtCall ==
    ClearAppDataCalled => mainWindow # "null" /\ uncaughtCount' = uncaughtCount

\* C25. clearAppData is called only while the main window exists: in every
\* step of 'window-all-closed', 'will-quit', the 'clear-app-data' message and
\* crashCallback mainWindow is not null, so none of these steps enters the
\* uncaught-exception path.
C25_ClearOnlyWithWindow == [][WindowExistsAtCall]_vars

\* The call sites one by one: the renderer sends its message only while the
\* window exists, and 'will-quit' comes only when it is gone.
IpcSiteHasWindow == RendererAlive => mainWindow # "null"

WillQuitSiteHasNone == [][WillQuitStep => mainWindow = "null"]_vars

CrashSiteHasWindow == [][CrashCallbackStep => mainWindow # "null"]_vars

AllClosedSiteHasWindow == [][WindowAllClosedStep => mainWindow # "null"]_vars

\* ------------------------------------------------ randompassword.c, decoding
\* The place of a character in the table, from 0.
IndexOf(c) == CHOOSE k \in 0..(Len(encoding_table) - 1) : encoding_table[k + 1] = c

\* The 24 bits four characters stand for, and byte p of what a string stands for.
TripleOf(str, g) ==
    IndexOf(str[4 * g + 1]) * 262144 + IndexOf(str[4 * g + 2]) * 4096
        + IndexOf(str[4 * g + 3]) * 64 + IndexOf(str[4 * g + 4])

Decoded(str) ==
    [p \in 1..((Len(str) \div 4) * 3) |->
        (TripleOf(str, (p - 1) \div 3) \div (256 ^ (2 - ((p - 1) % 3)))) % 256]

\* The inputs that differ from the input in one byte, of any value.
OneByteOff(bytes) ==
    {[bytes EXCEPT ![p] = b] : p \in 1..Len(bytes), b \in 0..255} \ {bytes}

\* C26. The encoding is injective: the 64 entries of the table are pairwise
\* distinct; the password printed decodes back to the 12 input bytes; and no
\* other input, of those the model draws or differing in one byte, gives the
\* string that was printed.
C26_EncodingInjective ==
    /\ Cardinality(TableSymbols) = 64
    /\ PwPrinted =>
           /\ Decoded(pwStdout) = urandom
           /\ \A other \in (Inputs \cup OneByteOff(urandom)) \ {urandom} :
                  encoded(other) # pwStdout

\* A password is printed for an input whose third group is 170, 255, 85: it
\* is not all "A", and its characters 9 to 12 decode to that group.
C26_Witness ==
    /\ PwPrinted
    /\ urandom[7] = 170 /\ urandom[8] = 255 /\ urandom[9] = 85
    /\ SubSeq(pwStdout, 9, 12) = <<"q", "v", "9", "V">>
    /\ SubSeq(Decoded(pwStdout), 7, 9) = <<170, 255, 85>>
====
